---- MODULE Spec2Model ----
(***************************************************************************)
(* The two diagnostic scripts of solana-million-grid:                      *)
(*   - "Diagnostico avanzado.py" (src/unnamed/part_000): health scan of    *)
(*     the RPC endpoints, then an optional getBalance test;                *)
(*   - verificar_balance.py: balance scan of the RPC endpoints, summary    *)
(*     statistics and the purchase estimate table.                         *)
(* The HTTP layer is the environment: every requests.get / requests.post   *)
(* answers with any exception or response of the finite sets below.        *)
(* Python floats are binary64; their arithmetic is modelled exactly        *)
(* (round to nearest, ties to even) on 53-bit mantissas kept as limbs.     *)
(***************************************************************************)
EXTENDS Integers, Sequences, FiniteSets

VARIABLES script, pc, i, j, wallet, working_rpcs, balances, log, report

vars == <<script, pc, i, j, wallet, working_rpcs, balances, log, report>>

(***************************************************************************)
(* Bounds of the model                                                     *)
(***************************************************************************)
\* the balances an endpoint may report are LamportChoices[1..MaxLamportChoice]
MaxLamportChoice == 3

\* 0 SOL, 0.1 SOL, 0.025005 SOL, 1 lamport, 2 SOL
LamportChoices == <<0, 100000000, 25005000, 1, 2000000000>>
LamportValues == {LamportChoices[k] : k \in 1..MaxLamportChoice}

(***************************************************************************)
(* Program constants                                                       *)
(***************************************************************************)
RPC_ENDPOINTS ==
    << "https://api.mainnet-beta.solana.com",
       "https://solana-api.projectserum.com",
       "https://rpc.ankr.com/solana",
       "https://api.mainnet.solana.com" >>

DIAG_RPC_ENDPOINTS ==
    << "https://api.mainnet-beta.solana.com",
       "https://solana-api.projectserum.com",
       "https://rpc.ankr.com/solana",
       "https://api.mainnet-beta.solana.com" >>

LAMPORTS_PER_SOL == 1000000000

examples == <<1, 10, 25, 50, 100>>

(***************************************************************************)
(* binary64 arithmetic on non-negative values.  A big natural is a         *)
(* big-endian sequence of limbs of LimbBits bits; a float is m * 2^e with  *)
(* m a natural of exactly MantBits bits held in MantLimbs limbs (or zero). *)
(***************************************************************************)
Pow2(k) == 2 ^ k

LimbBits == 10
LimbBase == Pow2(LimbBits)
MantBits == 53
MantLimbs == (MantBits + LimbBits - 1) \div LimbBits

Dig(a, p) == IF p >= 0 /\ p < Len(a) THEN a[Len(a) - p] ELSE 0
Resize(a, n) == [k \in 1..n |-> Dig(a, n - k)]
BitAt(a, p) == (Dig(a, p \div LimbBits) \div Pow2(p % LimbBits)) % 2
\* the number of bits of a limb below LimbBase
LimbBitLen(d) == CHOOSE n \in 0..LimbBits : d < Pow2(n) /\ (n = 0 \/ d >= Pow2(n - 1))
BigBitLen(a) ==
    LET nz == {k \in 1..Len(a) : a[k] # 0}
        first == CHOOSE k \in nz : \A o \in nz : k <= o
    IN IF nz = {} THEN 0 ELSE LimbBits * (Len(a) - first) + LimbBitLen(a[first])
\* the s lowest bits of a are all zero
LowBitsZero(a, s) ==
    /\ \A p \in 0..((s \div LimbBits) - 1) : Dig(a, p) = 0
    /\ Dig(a, s \div LimbBits) % Pow2(s % LimbBits) = 0
ShiftRight(a, s) ==
    LET q == s \div LimbBits
        t == s % LimbBits
    IN [k \in 1..Len(a) |->
          LET p == Len(a) - k
          IN (Dig(a, p + q) \div Pow2(t)) + (Dig(a, p + q + 1) % Pow2(t)) * Pow2(LimbBits - t)]
ShiftLeft(a, s) ==
    LET q == s \div LimbBits
        t == s % LimbBits
        n == Len(a) + q + 1
    IN [k \in 1..n |->
          LET p == n - k
          IN ((Dig(a, p - q) * Pow2(t)) % LimbBase) + (Dig(a, p - q - 1) \div Pow2(LimbBits - t))]
NatLimbs(n) ==
    <<n \div Pow2(30), (n \div Pow2(20)) % LimbBase, (n \div Pow2(10)) % LimbBase, n % LimbBase>>

RECURSIVE AddFrom(_, _, _, _, _)
AddFrom(a, b, p, n, c) ==
    IF p = n THEN <<c>>
    ELSE LET s == Dig(a, p) + Dig(b, p) + c
         IN Append(AddFrom(a, b, p + 1, n, s \div LimbBase), s % LimbBase)
BigAdd(a, b) == AddFrom(a, b, 0, IF Len(a) > Len(b) THEN Len(a) ELSE Len(b), 0)

RECURSIVE MulFrom(_, _, _, _)
MulFrom(a, k, p, c) ==
    IF p = Len(a) THEN <<c>>
    ELSE LET s == Dig(a, p) * k + c
         IN Append(MulFrom(a, k, p + 1, s \div LimbBase), s % LimbBase)
BigMulSmall(a, k) == MulFrom(a, k, 0, 0)

RECURSIVE DivFrom(_, _, _, _)
DivFrom(a, d, k, r) ==
    IF k > Len(a) THEN [q |-> <<>>, r |-> r]
    ELSE LET t == r * LimbBase + a[k]
             rest == DivFrom(a, d, k + 1, t % d)
         IN [q |-> <<t \div d>> \o rest.q, r |-> rest.r]
BigDivSmall(a, d) == DivFrom(a, d, 1, 0)

FZero == [m |-> Resize(<<>>, MantLimbs), e |-> 0]
IsZero(f) == f = FZero

\* a * 2^E, plus a fraction below the last bit when sticky, rounded to nearest-even
Round(a, sticky, E) ==
    LET n == BigBitLen(a)
    IN IF n = 0 THEN FZero
       ELSE IF n <= MantBits
       THEN [m |-> Resize(ShiftLeft(a, MantBits - n), MantLimbs), e |-> E - (MantBits - n)]
       ELSE LET s == n - MantBits
                top == Resize(ShiftRight(a, s), MantLimbs)
                half == BitAt(a, s - 1) = 1
                st == sticky \/ ~LowBitsZero(a, s - 1)
                inc == half /\ (st \/ BitAt(top, 0) = 1)
                up == IF inc THEN Resize(BigAdd(top, <<1>>), MantLimbs) ELSE top
            IN IF BigBitLen(up) > MantBits
               THEN [m |-> Resize(ShiftRight(up, 1), MantLimbs), e |-> E + s + 1]
               ELSE [m |-> up, e |-> E + s]

TwoExp(d) == CHOOSE k \in 0..30 : d % Pow2(k) = 0 /\ (d \div Pow2(k)) % 2 = 1
OddPart(d) == d \div Pow2(TwoExp(d))

\* a * 2^E / d correctly rounded (the odd part of d stays below 2^21)
RoundRatio(a, d, E) ==
    LET K == MantBits + 2 + 31
        qr == BigDivSmall(ShiftLeft(a, K), OddPart(d))
    IN Round(qr.q, qr.r # 0, E - K - TwoExp(d))

\* int / int
IntTrueDiv(a, b) == RoundRatio(NatLimbs(a), b, 0)
\* float / int
FDivInt(f, k) == RoundRatio(f.m, k, f.e)
\* int * float
IntMulF(q, f) == Round(BigMulSmall(f.m, q), FALSE, f.e)
\* float + float
FAdd(f, g) ==
    IF IsZero(f) THEN g ELSE IF IsZero(g) THEN f
    ELSE LET hi == IF f.e >= g.e THEN f ELSE g
             lo == IF f.e >= g.e THEN g ELSE f
         IN Round(BigAdd(ShiftLeft(hi.m, hi.e - lo.e), lo.m), FALSE, lo.e)

LimbsLess(a, b) == \E k \in 1..Len(a) : a[k] < b[k] /\ \A h \in 1..(k - 1) : a[h] = b[h]
FLess(f, g) ==
    IF IsZero(g) THEN FALSE ELSE IF IsZero(f) THEN TRUE
    ELSE f.e < g.e \/ (f.e = g.e /\ LimbsLess(f.m, g.m))
FLe(f, g) == f = g \/ FLess(f, g)

\* the float literals 0.001 and 0.000005
FLit_0_001 == IntTrueDiv(1, 1000)
FLit_0_000005 == IntTrueDiv(5, 1000000)

\* sum(values): the int 0 plus each float, left to right
RECURSIVE PySum(_)
PySum(values) ==
    IF values = <<>> THEN FZero
    ELSE FAdd(PySum(SubSeq(values, 1, Len(values) - 1)), values[Len(values)])
\* faulty variant: the first value instead of the least
PyMin_First(values) == values[1]

PyMin(values) == CHOOSE v \in {values[k] : k \in 1..Len(values)} :
                     \A k \in 1..Len(values) : FLe(v, values[k])
PyMax(values) == CHOOSE v \in {values[k] : k \in 1..Len(values)} :
                     \A k \in 1..Len(values) : FLe(values[k], v)

(***************************************************************************)
(* Python values and exceptions                                            *)
(***************************************************************************)
PyNone == [t |-> "None", b |-> FALSE, lamports |-> 0, sol |-> FZero]
PyTrue == [t |-> "bool", b |-> TRUE, lamports |-> 0, sol |-> FZero]
PyFalse == [t |-> "bool", b |-> FALSE, lamports |-> 0, sol |-> FZero]
PyTuple(l, f) == [t |-> "tuple", b |-> TRUE, lamports |-> l, sol |-> f]

\* truth value of `if x:` (a 2-tuple is never empty)
Truthy(v) == IF v.t = "tuple" THEN TRUE ELSE IF v.t = "bool" THEN v.b ELSE FALSE

Return(v) == [raised |-> "none", ret |-> v]
Raise(exc) == [raised |-> exc, ret |-> PyNone]

\* the classes each exception is an instance of
Bases(exc) ==
    CASE exc = "ReadTimeout" -> {"ReadTimeout", "Timeout", "RequestException", "Exception"}
      [] exc = "ConnectTimeout" ->
            {"ConnectTimeout", "ConnectionError", "Timeout", "RequestException", "Exception"}
      [] exc = "ConnectionError" -> {"ConnectionError", "RequestException", "Exception"}
      [] exc = "TooManyRedirects" -> {"TooManyRedirects", "RequestException", "Exception"}
      [] exc = "JSONDecodeError" -> {"JSONDecodeError", "ValueError", "Exception"}
      [] exc = "TypeError" -> {"TypeError", "Exception"}
      [] exc = "ZeroDivisionError" -> {"ZeroDivisionError", "ArithmeticError", "Exception"}
      [] OTHER -> {exc}
Caught(exc, handlers) == Bases(exc) \cap handlers # {}

(***************************************************************************)
(* The environment: what one HTTP request can come back with               *)
(***************************************************************************)
TransportExceptions == {"ReadTimeout", "ConnectTimeout", "ConnectionError", "TooManyRedirects"}

\* the `result` member of a JSON object
NoResult == [t |-> "absent", v |-> 0]
ResultShapes ==
    {NoResult, [t |-> "string", v |-> 0], [t |-> "number", v |-> 0],
     [t |-> "dict", v |-> 0], [t |-> "dict_strvalue", v |-> 0]}
        \cup {[t |-> "dict_value", v |-> l] : l \in LamportValues}

\* response bodies: not JSON, or JSON null, [] or an object
Bodies ==
    {[t |-> bt, result |-> NoResult, error |-> FALSE] : bt \in {"notjson", "null", "list"}}
        \cup {[t |-> "object", result |-> r, error |-> e] : r \in ResultShapes, e \in BOOLEAN}

NoBody == [t |-> "notjson", result |-> NoResult, error |-> FALSE]
Responses ==
    {[exc |-> x, status |-> 0, body |-> NoBody] : x \in TransportExceptions}
        \cup {[exc |-> "none", status |-> 500, body |-> NoBody]}
        \cup {[exc |-> "none", status |-> 200, body |-> b] : b \in Bodies}

\* JSON-RPC answers to getHealth carry a scalar result
HealthResponses == {r \in Responses : r.body.result.t \in {"absent", "string"}}
\* a plain GET of the endpoint answers with some page or fails
GetResponses == {r \in Responses : r.body = NoBody}

\* response.json()
Json(resp) == IF resp.body.t = "notjson" THEN Raise("JSONDecodeError") ELSE Return(PyNone)

\* `"result" in data`, `"error" in data`
HasKey(body, key) ==
    CASE body.t = "null" -> [raised |-> "TypeError", b |-> FALSE]
      [] body.t = "list" -> [raised |-> "none", b |-> FALSE]
      [] OTHER -> [raised |-> "none",
                   b |-> IF key = "result" THEN body.result.t # "absent" ELSE body.error]

\* `"value" in data["result"]`
HasValue(result) ==
    CASE result.t = "number" -> [raised |-> "TypeError", b |-> FALSE]
      [] result.t = "string" -> [raised |-> "none", b |-> FALSE]
      [] result.t = "dict" -> [raised |-> "none", b |-> FALSE]
      [] OTHER -> [raised |-> "none", b |-> TRUE]

(***************************************************************************)
(* The record of what the script did on the network                        *)
(***************************************************************************)
KindOf(resp) ==
    IF "Timeout" \in Bases(resp.exc) THEN "timeout"
    ELSE IF resp.exc # "none" THEN "error"
    ELSE IF resp.status # 200 THEN "http"
    ELSE IF resp.body.t = "notjson" THEN "badjson"
    ELSE "json"

Event(op, method, pos, url, kind, hasResult, hasError, ok, lamports) ==
    [op |-> op, method |-> method, pos |-> pos, url |-> url, kind |-> kind,
     hasResult |-> hasResult, hasError |-> hasError, ok |-> ok, lamports |-> lamports]

PostEvent(method, pos, url, resp, ret) ==
    Event("POST", method, pos, url, KindOf(resp),
          KindOf(resp) = "json" /\ resp.body.result.t # "absent",
          KindOf(resp) = "json" /\ resp.body.error,
          Truthy(ret),
          IF ret.t = "tuple" THEN ret.lamports ELSE 0)

\* test_get_balance tells its caller nothing about why a request failed
BalanceTestEvent(pos, url, resp, ret) ==
    Event("POST", "getBalance", pos, url, IF KindOf(resp) = "json" THEN "json" ELSE "failed",
          KindOf(resp) = "json" /\ resp.body.result.t # "absent",
          KindOf(resp) = "json" /\ resp.body.error,
          Truthy(ret), 0)

SleepEvent == Event("sleep", "", 0, "", "", FALSE, FALSE, FALSE, 0)

(***************************************************************************)
(* Diagnostico avanzado.py                                                 *)
(***************************************************************************)
\* faulty variant: a connection error of the GET no longer ends the test
test_rpc_basic_get_fatal_TimeoutOnly == {"Timeout"}

\* Test 1 of test_rpc_basic: the exceptions of requests.get that end the test
test_rpc_basic_get_fatal == {"Timeout", "ConnectionError"}

\* Test 1: "False" (return False), "raise", or "continue" with Test 2
test_rpc_basic_test1(getr) ==
    IF getr.exc = "none" THEN "continue"
    ELSE IF Caught(getr.exc, test_rpc_basic_get_fatal) THEN "False"
    ELSE IF Caught(getr.exc, {"Exception"}) THEN "continue"
    ELSE "raise"

\* faulty variant: a body with neither field falls through to success
test_rpc_basic_classify_Lenient(body) ==
    LET hasResult == HasKey(body, "result")
        hasError == HasKey(body, "error")
    IN IF hasResult.raised # "none" THEN Raise(hasResult.raised)
       ELSE IF hasResult.b THEN Return(PyTrue)
       ELSE IF hasError.raised # "none" THEN Raise(hasError.raised)
       ELSE IF hasError.b THEN Return(PyFalse)
       ELSE Return(PyTrue)

\* faulty variant: `error` is looked at before `result`
test_rpc_basic_classify_ErrorFirst(body) ==
    LET hasResult == HasKey(body, "result")
        hasError == HasKey(body, "error")
    IN IF hasError.raised # "none" THEN Raise(hasError.raised)
       ELSE IF hasError.b THEN Return(PyFalse)
       ELSE IF hasResult.raised # "none" THEN Raise(hasResult.raised)
       ELSE IF hasResult.b THEN Return(PyTrue)
       ELSE Return(PyNone)

\* the if/elif on the parsed body of a 200 response
test_rpc_basic_classify(body) ==
    LET hasResult == HasKey(body, "result")
        hasError == HasKey(body, "error")
    IN IF hasResult.raised # "none" THEN Raise(hasResult.raised)
       ELSE IF hasResult.b THEN Return(PyTrue)
       ELSE IF hasError.raised # "none" THEN Raise(hasError.raised)
       ELSE IF hasError.b THEN Return(PyFalse)
       ELSE Return(PyNone)

\* Test 2: the getHealth call inside its try block
test_rpc_basic_test2_try(postr) ==
    IF postr.exc # "none" THEN Raise(postr.exc)
    ELSE IF postr.status = 200
    THEN IF Json(postr).raised # "none" THEN Raise(Json(postr).raised)
         ELSE test_rpc_basic_classify(postr.body)
    ELSE Return(PyFalse)

test_rpc_basic_test2(postr) ==
    LET r == test_rpc_basic_test2_try(postr)
    IN IF r.raised # "none" /\ Caught(r.raised, {"Exception"}) THEN Return(PyFalse) ELSE r

test_rpc_basic(getr, postr) ==
    LET t1 == test_rpc_basic_test1(getr)
    IN IF t1 = "False" THEN [call |-> Return(PyFalse), posted |-> FALSE]
       ELSE IF t1 = "raise" THEN [call |-> Raise(getr.exc), posted |-> FALSE]
       ELSE [call |-> test_rpc_basic_test2(postr), posted |-> TRUE]

test_get_balance_try(resp) ==
    IF resp.exc # "none" THEN Raise(resp.exc)
    ELSE IF resp.status = 200
    THEN IF Json(resp).raised # "none" THEN Raise(Json(resp).raised)
         ELSE LET hasResult == HasKey(resp.body, "result")
                  hasValue == HasValue(resp.body.result)
              IN IF hasResult.raised # "none" THEN Raise(hasResult.raised)
                 ELSE IF ~hasResult.b THEN Return(PyFalse)
                 ELSE IF hasValue.raised # "none" THEN Raise(hasValue.raised)
                 ELSE IF ~hasValue.b THEN Return(PyFalse)
                 ELSE IF resp.body.result.t = "dict_strvalue" THEN Raise("TypeError")
                 ELSE Return(PyTrue)
    ELSE Return(PyFalse)

\* the bare `except:` returns False whatever was raised
test_get_balance(resp) ==
    LET r == test_get_balance_try(resp)
    IN IF r.raised # "none" THEN Return(PyFalse) ELSE r

\* what the plain GET of Test 1 met: a timeout, a connection error, or anything else
GetKind(getr) ==
    IF "Timeout" \in Bases(getr.exc) THEN "timeout"
    ELSE IF "ConnectionError" \in Bases(getr.exc) THEN "connerr"
    ELSE "other"

\* faulty variant: a failed probe is retried
ForNext_Retry(k, ret) == IF Truthy(ret) THEN k + 1 ELSE k

\* `for rpc in ...`: the index of the iteration that follows a probe that returned ret
ForNext(k, ret) == k + 1

\* faulty variant: the endpoint is appended whatever the probe returned
DiagAppend_Always(list, url, ret) == Append(list, url)

\* the list after `if test_rpc_basic(rpc): working_rpcs.append(rpc)`
DiagAppend(list, url, ret) == IF Truthy(ret) THEN Append(list, url) ELSE list

\* one iteration of `for rpc in RPC_ENDPOINTS:` (lines 103-106)
DiagProbe ==
    /\ script = "diag" /\ pc = "scan" /\ i < Len(DIAG_RPC_ENDPOINTS)
    /\ \E getr \in GetResponses, postr \in HealthResponses :
          LET url == DIAG_RPC_ENDPOINTS[i + 1]
              r == test_rpc_basic(getr, postr)
              sent == <<Event("GET", "", i + 1, url, GetKind(getr), FALSE, FALSE, FALSE, 0)>>
                          \o (IF r.posted
                              THEN <<PostEvent("getHealth", i + 1, url, postr, r.call.ret)>>
                              ELSE <<>>)
          IN IF r.call.raised # "none"
             THEN /\ pc' = "crashed"
                  /\ log' = log \o sent
                  /\ UNCHANGED <<i, working_rpcs>>
             ELSE /\ working_rpcs' = DiagAppend(working_rpcs, url, r.call.ret)
                  /\ log' = log \o sent \o <<SleepEvent>>
                  /\ i' = ForNext(i, r.call.ret)
                  /\ pc' = pc
    /\ UNCHANGED <<script, j, wallet, balances, report>>

\* the results block and the wallet prompt (lines 108-131)
DiagInput ==
    /\ script = "diag" /\ pc = "scan" /\ i = Len(DIAG_RPC_ENDPOINTS)
    /\ \E w \in {"", "addr"} :
          /\ wallet' = w
          /\ pc' = IF w # "" /\ working_rpcs # <<>> THEN "balance_test" ELSE "network"
    /\ j' = 0
    /\ UNCHANGED <<script, i, working_rpcs, balances, log, report>>

\* one iteration of `for rpc in working_rpcs:` (lines 133-139)
DiagBalanceTest ==
    /\ script = "diag" /\ pc = "balance_test" /\ j < Len(working_rpcs)
    /\ \E resp \in Responses :
          LET url == working_rpcs[j + 1]
              r == test_get_balance(resp)
          IN /\ log' = Append(log, BalanceTestEvent(j + 1, url, resp, r.ret))
             /\ j' = j + 1
             /\ pc' = IF Truthy(r.ret) \/ j + 1 = Len(working_rpcs) THEN "network" ELSE pc
    /\ UNCHANGED <<script, i, wallet, working_rpcs, balances, report>>

\* the network diagnosis and the recommendations (lines 141-247)
DiagRest ==
    /\ script = "diag" /\ pc = "network"
    /\ pc' = "done"
    /\ UNCHANGED <<script, i, j, wallet, working_rpcs, balances, log, report>>

(***************************************************************************)
(* verificar_balance.py                                                    *)
(***************************************************************************)
\* `balance_sol = balance_lamports / LAMPORTS_PER_SOL` for each reported balance (line 63)
balance_sol == [l \in LamportValues |-> IntTrueDiv(l, LAMPORTS_PER_SOL)]

\* faulty variant: only the Timeout clause
check_balance_excepts_TimeoutOnly == {"Timeout"}

\* the except clauses of check_balance
check_balance_excepts == {"Timeout", "RequestException", "Exception"}

\* the if/else on the parsed body of a 200 response (lines 61-73)
check_balance_classify(body) ==
    LET hasResult == HasKey(body, "result")
        hasValue == HasValue(body.result)
    IN IF hasResult.raised # "none" THEN Raise(hasResult.raised)
       ELSE IF ~hasResult.b THEN Return(PyNone)
       ELSE IF hasValue.raised # "none" THEN Raise(hasValue.raised)
       ELSE IF ~hasValue.b THEN Return(PyNone)
       ELSE IF body.result.t = "dict_strvalue" THEN Raise("TypeError")
       ELSE Return(PyTuple(body.result.v, balance_sol[body.result.v]))

check_balance_try(resp) ==
    IF resp.exc # "none" THEN Raise(resp.exc)
    ELSE IF resp.status = 200
    THEN IF Json(resp).raised # "none" THEN Raise(Json(resp).raised)
         ELSE check_balance_classify(resp.body)
    ELSE Return(PyNone)

check_balance(resp) ==
    LET r == check_balance_try(resp)
    IN IF r.raised # "none" /\ Caught(r.raised, check_balance_excepts) THEN Return(PyNone)
       ELSE r

\* faulty variant: the fee is left out of the total
estimate_fees_NoFee(num_blocks) ==
    LET total_price == IntMulF(num_blocks, FLit_0_001)
        estimated_fee == FLit_0_000005
    IN [blocks |-> num_blocks, subtotal |-> total_price, estimated_fee |-> estimated_fee,
        total |-> total_price]

estimate_fees(num_blocks) ==
    LET total_price == IntMulF(num_blocks, FLit_0_001)
        estimated_fee == FLit_0_000005
    IN [blocks |-> num_blocks, subtotal |-> total_price, estimated_fee |-> estimated_fee,
        total |-> FAdd(total_price, estimated_fee)]

\* `estimate = estimate_fees(num_blocks)` for each of the examples (lines 185-187)
estimates == [k \in 1..Len(examples) |-> estimate_fees(examples[k])]

\* faulty variant: the empty list is not noticed
NoBalances_Never(b) == FALSE

\* `if not balances:`
NoBalances(b) == Len(b) = 0

\* sum(balance_values) / len(balance_values)
Average(values) ==
    IF Len(values) = 0 THEN [raised |-> "ZeroDivisionError", v |-> FZero]
    ELSE [raised |-> "none", v |-> FDivInt(PySum(values), Len(values))]

\* `if len(set(balance_values)) > 1:` prints the range
RangeShown(values) == Cardinality({values[k] : k \in 1..Len(values)}) > 1

\* one printed row of the purchase examples (lines 186-197)
Row(k, avg_balance) ==
    LET estimate == estimates[k]
    IN [blocks |-> estimate.blocks, subtotal |-> estimate.subtotal, fee |-> estimate.estimated_fee,
        total |-> estimate.total, affordable |-> FLe(estimate.total, avg_balance)]

\* the purchase estimate section (lines 174-197)
Purchases(avg_balance) ==
    IF IsZero(avg_balance) THEN <<>>
    ELSE [k \in 1..Len(examples) |-> Row(k, avg_balance)]

NoReport == [kind |-> "none", avg |-> FZero, min |-> FZero, max |-> FZero,
             range |-> FALSE, rows |-> <<>>]

\* the wallet prompt and its length check (lines 115-126)
BalInput ==
    /\ script = "balance" /\ pc = "input"
    /\ \E len \in {"empty", "short", "valid", "long"}, continuar \in {"s", "n"} :
          IF len = "empty" \/ (len # "valid" /\ continuar # "s")
          THEN pc' = "done" /\ wallet' = wallet
          ELSE pc' = "scan" /\ wallet' = "addr"
    /\ UNCHANGED <<script, i, j, working_rpcs, balances, log, report>>

\* one iteration of `for rpc_url in RPC_ENDPOINTS:` (lines 134-139)
BalProbe ==
    /\ script = "balance" /\ pc = "scan" /\ i < Len(RPC_ENDPOINTS)
    /\ \E resp \in Responses :
          LET rpc_url == RPC_ENDPOINTS[i + 1]
              r == check_balance(resp)
              sent == <<PostEvent("getBalance", i + 1, rpc_url, resp, r.ret)>>
          IN IF r.raised # "none"
             THEN /\ pc' = "error"
                  /\ log' = log \o sent
                  /\ UNCHANGED <<i, balances, working_rpcs>>
             ELSE IF Truthy(r.ret)
             THEN /\ balances' = Append(balances, [lamports |-> r.ret.lamports, sol |-> r.ret.sol])
                  /\ working_rpcs' = Append(working_rpcs, rpc_url)
                  /\ log' = log \o sent \o <<SleepEvent>>
                  /\ i' = ForNext(i, r.ret)
                  /\ pc' = pc
             ELSE /\ log' = log \o sent
                  /\ i' = ForNext(i, r.ret)
                  /\ UNCHANGED <<pc, balances, working_rpcs>>
    /\ UNCHANGED <<script, j, wallet, report>>

\* the summary, the statistics and the purchase estimates (lines 141-204)
BalSummary ==
    /\ script = "balance" /\ pc = "scan" /\ i = Len(RPC_ENDPOINTS)
    /\ LET balance_values == [k \in 1..Len(balances) |-> balances[k].sol]
           avg_balance == Average(balance_values)
       IN IF NoBalances(balances)
          THEN /\ report' = [NoReport EXCEPT !.kind = "nodata"]
               /\ pc' = "done"
          ELSE IF avg_balance.raised # "none"
          THEN /\ report' = report
               /\ pc' = "error"
          ELSE /\ report' = [kind |-> "stats", avg |-> avg_balance.v,
                             min |-> PyMin(balance_values), max |-> PyMax(balance_values),
                             range |-> RangeShown(balance_values),
                             rows |-> Purchases(avg_balance.v)]
               /\ pc' = "done"
    /\ UNCHANGED <<script, i, j, wallet, working_rpcs, balances, log>>

\* either script is started
Start(scripts) ==
    /\ script \in scripts
    /\ pc = IF script = "diag" THEN "scan" ELSE "input"
    /\ i = 0
    /\ j = 0
    /\ wallet = ""
    /\ working_rpcs = <<>>
    /\ balances = <<>>
    /\ log = <<>>
    /\ report = NoReport

Init == Start({"diag", "balance"})
InitDiag == Start({"diag"})
InitBalance == Start({"balance"})

NextDiag == DiagProbe \/ DiagInput \/ DiagBalanceTest \/ DiagRest

NextBalance == BalInput \/ BalProbe \/ BalSummary

Next == NextDiag \/ NextBalance

Spec == Init /\ [][Next]_vars
SpecDiag == InitDiag /\ [][NextDiag]_vars
SpecBalance == InitBalance /\ [][NextBalance]_vars

(***************************************************************************)
(* Reading the record                                                      *)
(***************************************************************************)
Endpoints == IF script = "diag" THEN DIAG_RPC_ENDPOINTS ELSE RPC_ENDPOINTS
ScanMethod == IF script = "diag" THEN "getHealth" ELSE "getBalance"

\* the recorded results of the scan
Results == IF script = "diag" THEN working_rpcs ELSE balances

\* the scan loop has been left, normally or by an exception
ScanOver ==
    \/ pc \in {"balance_test", "network", "crashed", "error"}
    \/ pc = "done" /\ (script = "balance" => wallet = "addr")
\* the scan loop ran to the end of the list
ScanEnded == i = Len(Endpoints)

\* the JSON-RPC request of the scan, and the first request of a probe
IsScanPost(e) == e.op = "POST" /\ e.method = ScanMethod
IsProbeStart(e) == IF script = "diag" THEN e.op = "GET" ELSE IsScanPost(e)
IsBalanceTest(e) == script = "diag" /\ e.op = "POST" /\ e.method = "getBalance"

ProbeStarts == SelectSeq(log, IsProbeStart)
Probed(p) == \E k \in 1..Len(log) : IsProbeStart(log[k]) /\ log[k].pos = p
ProbeSucceeded(p) == \E k \in 1..Len(log) : IsScanPost(log[k]) /\ log[k].pos = p /\ log[k].ok
SucceededPositions == SelectSeq([p \in 1..Len(Endpoints) |-> p], ProbeSucceeded)

\* a per-endpoint failure: timeout, connection error, non-200 status, unparsable body
IsTransportFailure(e) ==
    \/ e.op = "GET" /\ e.kind \in {"timeout", "connerr"}
    \/ IsScanPost(e) /\ e.kind \in {"timeout", "error", "http", "badjson"}

\* a 200 response whose parsed body has neither `result` nor `error`
IsNeither(e) == e.op = "POST" /\ e.kind = "json" /\ ~e.hasResult /\ ~e.hasError

(***************************************************************************)
(* C1: a probe scan yields exactly one recorded result per endpoint, in    *)
(* list order, so after the scan the number of results equals the number   *)
(* of endpoints.                                                           *)
(***************************************************************************)
\* the claim as stated: as many recorded results as endpoints
C1_OneResultPerEndpoint == ScanEnded => Len(Results) = Len(Endpoints)

\* C1 as amended: every endpoint is probed exactly once, in list order, whatever the
\* outcomes, but only the successful probes are recorded (in list order): the
\* number of results is the number of successes, at most the number of endpoints
C1_OneProbePerEndpoint ==
    /\ Len(ProbeStarts) = i
    /\ \A k \in 1..Len(ProbeStarts) :
          ProbeStarts[k].pos = k /\ ProbeStarts[k].url = Endpoints[k]
    /\ Len(Results) = Len(SucceededPositions)
    /\ working_rpcs = [k \in 1..Len(SucceededPositions) |-> Endpoints[SucceededPositions[k]]]
    /\ Len(Results) <= Len(Endpoints)
    /\ ScanOver => ScanEnded

C1_Witness ==
    /\ ScanEnded /\ ScanOver
    /\ ~ProbeSucceeded(1) /\ ProbeSucceeded(2) /\ ~ProbeSucceeded(3) /\ ProbeSucceeded(4)
    /\ Len(Results) = 2

(***************************************************************************)
(* C2: a per-endpoint failure (timeout, connection error, non-200 status,  *)
(* unparsable body) is never fatal to the scan: no exception leaves the    *)
(* probe and every later endpoint is still probed.                         *)
(***************************************************************************)
C2_FailureNotFatal ==
    \A k \in 1..Len(log) :
        IsTransportFailure(log[k]) =>
            /\ pc \notin {"crashed", "error"}
            /\ i >= log[k].pos
            /\ ScanOver => \A q \in (log[k].pos + 1)..Len(Endpoints) : Probed(q)

C2_Witness ==
    /\ ScanOver
    /\ \E a, b, c \in 1..Len(log) :
          /\ a < b /\ b < c
          /\ IsScanPost(log[a]) /\ log[a].kind = "timeout" /\ log[a].pos = 1
          /\ IsScanPost(log[b]) /\ log[b].kind = "http" /\ log[b].pos = 2
          /\ IsScanPost(log[c]) /\ log[c].kind = "badjson" /\ log[c].pos = 3
    /\ ProbeSucceeded(4)

(***************************************************************************)
(* C3: a 200 response whose body has neither `result` nor `error` is a     *)
(* failure: the step that receives it marks no success, adds no working    *)
(* endpoint and no balance sample (test_rpc_basic, check_balance,          *)
(* test_get_balance).                                                      *)
(***************************************************************************)
C3_NeitherIsFailure ==
    [][\A k \in (Len(log) + 1)..Len(log') :
          IsNeither(log'[k]) =>
              /\ ~log'[k].ok
              /\ working_rpcs' = working_rpcs
              /\ balances' = balances
              /\ (pc = "balance_test" /\ j + 1 < Len(working_rpcs) => pc' = "balance_test")]_vars

C3_Witness ==
    /\ script = "diag" /\ pc = "done"
    /\ \E a, b \in 1..Len(log) :
          /\ IsScanPost(log[a]) /\ IsNeither(log[a]) /\ log[a].pos = 2
          /\ IsBalanceTest(log[b]) /\ IsNeither(log[b]) /\ log[b].pos = 1
    /\ working_rpcs = <<DIAG_RPC_ENDPOINTS[1], DIAG_RPC_ENDPOINTS[3]>>

(***************************************************************************)
(* C4: the `error` check comes before the `result` check: an object with   *)
(* an `error` field is an RpcError and never counted as working, also when *)
(* it carries a `result` field too.                                        *)
(***************************************************************************)
\* the claim as stated
C4_ErrorFirst ==
    \A k \in 1..Len(log) :
        IsScanPost(log[k]) /\ log[k].kind = "json" /\ log[k].hasError => ~log[k].ok

\* C4 as amended: the `result` check comes first.  An object with `error` and no
\* `result` is never counted as working; an object with both fields is classified by
\* its `result` (health check: working; balance check: working when it holds a balance)
C4_ResultFirst ==
    \A k \in 1..Len(log) :
        IsScanPost(log[k]) /\ log[k].kind = "json" =>
            /\ ~log[k].hasResult => ~log[k].ok
            /\ script = "diag" /\ log[k].hasResult => log[k].ok
            /\ log[k].ok => ProbeSucceeded(log[k].pos) /\ log[k].hasResult

C4_Witness ==
    \E a, b \in 1..Len(log) :
        /\ IsScanPost(log[a]) /\ log[a].hasError /\ log[a].hasResult /\ log[a].ok
        /\ IsScanPost(log[b]) /\ log[b].hasError /\ ~log[b].hasResult /\ ~log[b].ok
        /\ Len(working_rpcs) = 1

(***************************************************************************)
(* C5: when no endpoint yields a balance sample the summary is the empty   *)
(* "no data" outcome, not an error: no statistics, no estimate table, and  *)
(* the run ends normally.                                                  *)
(***************************************************************************)
C5_EmptyAggregate ==
    (script = "balance" /\ ScanOver /\ \A p \in 1..Len(Endpoints) : ~ProbeSucceeded(p)) =>
        /\ pc = "done"
        /\ report = [NoReport EXCEPT !.kind = "nodata"]
        /\ balances = <<>>

C5_Witness ==
    /\ script = "balance" /\ pc = "done" /\ report.kind = "nodata"
    /\ \E a, b \in 1..Len(log) :
          /\ log[a].kind = "timeout"
          /\ log[b].kind = "json" /\ log[b].hasError /\ ~log[b].ok

(***************************************************************************)
(* C6: with at least one success the aggregate is computed over exactly    *)
(* the samples of the successful endpoints: min the least, max the         *)
(* greatest, average = sum / count, so min <= average <= max, average =    *)
(* min = max when all samples are equal, a range is reported exactly when  *)
(* they are not all equal, and the run goes on to the purchase estimates.  *)
(***************************************************************************)
ScanPostAt(p) == log[CHOOSE k \in 1..Len(log) : IsScanPost(log[k]) /\ log[k].pos = p]
\* the SOL value of each successful probe, in list order
LogSamples ==
    [k \in 1..Len(SucceededPositions) |-> balance_sol[ScanPostAt(SucceededPositions[k]).lamports]]
AllEqual(v) == \A a, b \in 1..Len(v) : v[a] = v[b]
IsLeast(x, v) == (\E k \in 1..Len(v) : v[k] = x) /\ \A k \in 1..Len(v) : FLe(x, v[k])
IsGreatest(x, v) == (\E k \in 1..Len(v) : v[k] = x) /\ \A k \in 1..Len(v) : FLe(v[k], x)
SomeSuccess == script = "balance" /\ ScanOver /\ \E p \in 1..Len(Endpoints) : ProbeSucceeded(p)

\* what C6 keeps whatever the number of samples
C6_Common ==
    /\ pc = "done" /\ report.kind = "stats"
    /\ [k \in 1..Len(balances) |-> balances[k].sol] = LogSamples
    /\ IsLeast(report.min, LogSamples)
    /\ IsGreatest(report.max, LogSamples)
    /\ report.avg = FDivInt(PySum(LogSamples), Len(LogSamples))
    /\ report.range <=> ~AllEqual(LogSamples)
    /\ IsZero(report.avg) \/ Len(report.rows) = Len(examples)

\* the claim as stated
C6_AverageWithinRange ==
    SomeSuccess =>
        /\ C6_Common
        /\ FLe(report.min, report.avg) /\ FLe(report.avg, report.max)
        /\ AllEqual(LogSamples) => report.avg = report.min /\ report.avg = report.max

\* C6 as amended: min <= average <= max, and average = min = max for equal samples,
\* hold with one or two samples; with more samples the rounding of the float sum
\* and quotient can leave the average outside [min, max]
C6_AverageOfFloats ==
    SomeSuccess =>
        /\ C6_Common
        /\ Len(LogSamples) <= 2 =>
              /\ FLe(report.min, report.avg) /\ FLe(report.avg, report.max)
              /\ AllEqual(LogSamples) => report.avg = report.min /\ report.avg = report.max

C6_Witness ==
    /\ SomeSuccess /\ report.kind = "stats"
    /\ Len(balances) = 2 /\ report.range /\ FLess(report.min, report.avg)
    /\ FLess(report.avg, report.max)
    /\ \E k \in 1..Len(log) : IsTransportFailure(log[k])

(***************************************************************************)
(* C7: every purchase row has subtotal = q * unitPrice, total = subtotal + *)
(* fee, and is affordable exactly when total <= balance; there is one row  *)
(* per requested quantity, also for a zero balance (then none affordable); *)
(* if q is affordable so is every smaller requested quantity.              *)
(***************************************************************************)
RowRight(k) ==
    LET row == report.rows[k]
    IN /\ row.blocks = examples[k]
       /\ row.subtotal = IntMulF(examples[k], FLit_0_001)
       /\ row.fee = FLit_0_000005
       /\ row.total = FAdd(row.subtotal, row.fee)
       /\ row.affordable <=> FLe(row.total, report.avg)
RowsMonotone ==
    \A k, h \in 1..Len(report.rows) :
        examples[k] < examples[h] /\ report.rows[h].affordable => report.rows[k].affordable

\* the claim as stated
C7_RowPerQuantity ==
    report.kind = "stats" =>
        /\ Len(report.rows) = Len(examples)
        /\ \A k \in 1..Len(report.rows) : RowRight(k)
        /\ IsZero(report.avg) => \A k \in 1..Len(report.rows) : ~report.rows[k].affordable
        /\ RowsMonotone

\* C7 as amended: the rows are produced, one per requested quantity, only for a
\* non-zero average balance; for a zero balance no row is produced at all
C7_RowsUnlessZero ==
    report.kind = "stats" =>
        /\ Len(report.rows) = (IF IsZero(report.avg) THEN 0 ELSE Len(examples))
        /\ \A k \in 1..Len(report.rows) : RowRight(k)
        /\ RowsMonotone

C7_Witness ==
    /\ report.kind = "stats" /\ Len(report.rows) = Len(examples)
    /\ report.rows[3].affordable /\ ~report.rows[4].affordable

(***************************************************************************)
(* C8: no retries within a scan: each endpoint URL is sent the JSON-RPC    *)
(* request at most once, and a failed endpoint is never sent it again.     *)
(***************************************************************************)
\* the claim as stated
C8_UrlSentOnce ==
    \A a, b \in 1..Len(log) :
        IsScanPost(log[a]) /\ IsScanPost(log[b]) /\ log[a].url = log[b].url => a = b

\* C8 as amended: each entry of the list is sent the request at most once, in list
\* order, failed or not; a URL listed twice is sent it once per entry
C8_EntrySentOnce ==
    /\ \A a, b \in 1..Len(log) :
          IsScanPost(log[a]) /\ IsScanPost(log[b]) /\ a < b => log[a].pos < log[b].pos
    /\ \A a \in 1..Len(log) :
          IsScanPost(log[a]) =>
              /\ log[a].pos \in 1..Len(Endpoints)
              /\ log[a].url = Endpoints[log[a].pos]
    /\ \A a, b \in 1..Len(log) :
          IsProbeStart(log[a]) /\ IsProbeStart(log[b]) /\ a < b => log[a].pos < log[b].pos

C8_Witness ==
    \E a, b \in 1..Len(log) :
        /\ IsScanPost(log[a]) /\ IsScanPost(log[b])
        /\ log[a].pos = 1 /\ log[b].pos = 4 /\ log[a].url = log[b].url
        /\ ~log[a].ok

(***************************************************************************)
(* C9: between any two consecutive probes of a scan the script pauses,     *)
(* whether the earlier probe succeeded or failed, in both scripts.         *)
(***************************************************************************)
C9_PauseBetweenProbes ==
    \A a, b \in 1..Len(log) :
        IsProbeStart(log[a]) /\ IsProbeStart(log[b]) /\ a < b =>
            \E c \in (a + 1)..(b - 1) : log[c].op = "sleep"

(***************************************************************************)
(* C10: in the connectivity script getBalance goes only to the endpoints   *)
(* of working_rpcs, in that order, and stops at the first balance          *)
(* obtained; nothing is sent for an empty wallet input or an empty         *)
(* working_rpcs; an endpoint whose first GET timed out or could not        *)
(* connect is never sent the getHealth POST.                               *)
(***************************************************************************)
BalanceTests == SelectSeq(log, IsBalanceTest)

C10_BalanceTestOrder ==
    script = "diag" =>
        /\ \A k \in 1..Len(BalanceTests) :
              /\ BalanceTests[k].pos = k
              /\ k <= Len(working_rpcs)
              /\ BalanceTests[k].url = working_rpcs[k]
              /\ BalanceTests[k].ok => k = Len(BalanceTests) /\ pc # "balance_test"
        /\ BalanceTests # <<>> => ScanEnded /\ wallet # "" /\ working_rpcs # <<>>
        /\ working_rpcs = [k \in 1..Len(SucceededPositions) |-> Endpoints[SucceededPositions[k]]]
        /\ \A a, b \in 1..Len(log) :
              log[a].op = "GET" /\ log[a].kind \in {"timeout", "connerr"} =>
                  ~(IsScanPost(log[b]) /\ log[b].pos = log[a].pos)

C10_Witness ==
    /\ script = "diag" /\ pc = "done"
    /\ Len(working_rpcs) = 3 /\ Len(BalanceTests) = 2
    /\ ~BalanceTests[1].ok /\ BalanceTests[2].ok
    /\ \E a \in 1..Len(log) : log[a].op = "GET" /\ log[a].kind = "connerr"
====
